---- MODULE Spec2Model ----
(***************************************************************************)
(* State-machine model of the gosite composition / dedup / render core:    *)
(* Site (env.backend.go, gosite.go), Page (page.go), Section               *)
(* (unnamed/part_010), NavbarBuilder (env.backend.go) and the escaper      *)
(* (util/escape.go).                                                       *)
(*                                                                         *)
(* Text is modelled as a sequence of chunks.  Caller-supplied titles,      *)
(* identifiers and file names are sequences of one-character chunks, so    *)
(* that escaping, lower-casing and replacement work on characters; literal *)
(* fragments written by the code are one chunk each.  Asset texts (CSS/JS) *)
(* are opaque strings compared by content.                                 *)
(***************************************************************************)
EXTENDS Integers, Sequences, FiniteSets, TLC

\* ------------------------------------------------------------------ bounds
\* MaxPages caps the page list; MaxTree caps the number of pages, sections,
\* components, head fragments and explicit section identifiers of the whole
\* tree taken together.
MaxPages == 2
MaxTree == 4

\* ------------------------------------------------------------------ inputs
\* (title, output name) pairs offered to NewPage.
PageArgs == { << <<"A", " ", "b">>, <<"i">> >>, << <<"<", "\"", ">">>, <<"c", "\"">> >> }
\* Section titles offered to NewSection (the empty title omits the heading).
SectionTitles == { <<>>, <<"A", " ", "<">> }
\* Head fragments offered to AddHead (trusted markup, one chunk).
HeadFragments == { <<"<meta name=\"d\">">> }
\* Head fragments offered to AddHead where their order is looked at.
HeadFragmentsDoc == HeadFragments \cup { <<"<base href=\"/\">">> }
\* Identifiers assigned to Section.ModuleID.
ModuleIDs == { <<"B", " ", "\"">> }
\* An asset text that is valid both as a CSS block and as a JS block.
BlockX == "/* x */"
\* Asset texts offered directly to Site.AddCSS / Site.AddJS.
DirectTexts == { "", BlockX }

\* A whitespace-only asset text.
Blank == " "
\* Asset texts offered where empty and blank content is looked at.
AssetTexts == { "", Blank, BlockX }
\* Components whose CSS or JS text is empty or blank, and one that keeps texts
\* in fields of its own but has neither the RenderCSS nor the RenderJS method.
AssetComponents ==
  { [hasHTML |-> TRUE,  html |-> <<"<p>Hi</p>">>, hasCSS |-> TRUE,  css |-> "",
     hasJS |-> TRUE,  js |-> Blank],
    [hasHTML |-> FALSE, html |-> <<>>,            hasCSS |-> TRUE,  css |-> Blank,
     hasJS |-> TRUE,  js |-> ""],
    [hasHTML |-> TRUE,  html |-> <<"<i>k</i>">>,  hasCSS |-> TRUE,  css |-> BlockX,
     hasJS |-> FALSE, js |-> ""],
    [hasHTML |-> TRUE,  html |-> <<"<b>n</b>">>,  hasCSS |-> FALSE, css |-> BlockX,
     hasJS |-> FALSE, js |-> Blank] }

\* Components: each capability (HTMLRenderer, CSSRenderer, JSRenderer) is
\* present or absent, independently of the others.
Components ==
  { [hasHTML |-> TRUE,  html |-> <<"<p>Hi</p>">>, hasCSS |-> TRUE,  css |-> BlockX,
     hasJS |-> FALSE, js |-> ""],
    [hasHTML |-> FALSE, html |-> <<>>,            hasCSS |-> TRUE,  css |-> BlockX,
     hasJS |-> TRUE,  js |-> BlockX],
    [hasHTML |-> TRUE,  html |-> <<"<i>k</i>">>,  hasCSS |-> FALSE, css |-> "",
     hasJS |-> TRUE,  js |-> ""] }

OutputDir == <<"out">>

\* ------------------------------------------------------------------ state
VARIABLES
  pages,      \* Site.pages: sequence of Page records
  cssBlocks,  \* Site.cssBlocks: sequence of assetBlock
  jsBlocks,   \* Site.jsBlocks: sequence of assetBlock
  buff,       \* Site.buff: the Site's shared output buffer
  sink,       \* the Cfg.WriteFile calls made by the most recent operation, in call order
  call,       \* the most recent operation and what it returned
  cssOffered, \* every non-empty text ever passed to Site.AddCSS
  jsOffered,  \* every non-empty text ever passed to Site.AddJS
  threads,    \* the position and locals of each concurrent Generate call
  lastGen,    \* the WriteFile calls of the most recent Generate, kept while no build
              \* operation and no failed Generate follows it, and whether BuildNav
              \* was called since
  repeat      \* when the most recent operation is a successful Generate and lastGen
              \* held an earlier one: whether both made the same WriteFile calls
              \* ("same" or "differs") and whether BuildNav was called between them

vars == <<pages, cssBlocks, jsBlocks, buff, sink, call, cssOffered, jsOffered, threads,
          lastGen, repeat>>

NoGen == [ok |-> FALSE]

NoRepeat == [cmp |-> "none"]

\* The callers that may run Site.Generate at the same time.
Threads == {"g1", "g2"}

Idle == [pc |-> "idle", i |-> 0, out |-> <<>>]

\* ------------------------------------------------------------------ helpers
Range(s) == { s[i] : i \in 1..Len(s) }

IsPrefix(s, t) == Len(s) <= Len(t) /\ SubSeq(t, 1, Len(s)) = s

RECURSIVE Flatten(_)
Flatten(ss) == IF ss = <<>> THEN <<>> ELSE Head(ss) \o Flatten(Tail(ss))

\* ------------------------------------------------------------------ escaper
EscapeChar(c) ==
  CASE c = "<"  -> "&lt;"
    [] c = ">"  -> "&gt;"
    [] c = "&"  -> "&amp;"
    [] c = "\"" -> "&#34;"
    [] c = "'"  -> "&#39;"
    [] OTHER    -> c

EscapeHTML(s) == [i \in 1..Len(s) |-> EscapeChar(s[i])]

\* EscapeAttr handing its argument back as it is.
EscapeAttrNone(s) == s

EscapeAttr(s) == [i \in 1..Len(s) |-> EscapeChar(s[i])]

LowerChar(c) ==
  CASE c = "A" -> "a"
    [] c = "B" -> "b"
    [] c = "C" -> "c"
    [] OTHER   -> c

ToLower(s) == [i \in 1..Len(s) |-> LowerChar(s[i])]

Replace(s, old, new) == [i \in 1..Len(s) |-> IF s[i] = old THEN new ELSE s[i]]

\* ------------------------------------------------------------------ registries
\* AddBlock putting a new block in front of the stored ones.
AddBlockFront(blocks, text) ==
  IF text = "" THEN blocks
  ELSE IF \E i \in 1..Len(blocks) : blocks[i].Content = text THEN blocks
  ELSE <<[Content |-> text]>> \o blocks

\* AddBlock without the early return on the empty text.
AddBlockKeepEmpty(blocks, text) ==
  IF \E i \in 1..Len(blocks) : blocks[i].Content = text THEN blocks
  ELSE Append(blocks, [Content |-> text])

\* AddBlock without the scan for an equal block.
AddBlockNoScan(blocks, text) ==
  IF text = "" THEN blocks ELSE Append(blocks, [Content |-> text])

\* Site.AddCSS / Site.AddJS on a block list: the list after the call.
AddBlock(blocks, text) ==
  IF text = "" THEN blocks
  ELSE IF \E i \in 1..Len(blocks) : blocks[i].Content = text THEN blocks
  ELSE Append(blocks, [Content |-> text])

AddCSS(blocks, css) == AddBlock(blocks, css)

AddJS(blocks, js) == AddBlock(blocks, js)

\* ------------------------------------------------------------------ navbar
NavOpen == "<nav class=\"main-nav\">\n  <div class=\"links-container\">\n"

NavClose == "  </div>\n</nav>\n"

HomeLinkOpen == "    <a class=\"home-link\" href=\""

LinkOpen == "    <a href=\""

\* NavbarBuilder.RenderCSS / RenderJS: fixed texts.
NavbarRenderCSS == "/* Main nav styles */"

NavbarRenderJS == "// View Transition API"

\* The link NavbarBuilder.Render writes for the i-th page.
NavLink(pgs, i) ==
  <<(IF i = 1 THEN HomeLinkOpen ELSE LinkOpen)>>
    \o EscapeAttr(pgs[i].filename) \o <<"\">">>
    \o EscapeHTML(pgs[i].title) \o <<"</a>\n">>

\* NavbarRender showing the page list as it was when it held one page.
NavbarRenderFirstOnly(pgs) ==
  <<NavOpen>> \o Flatten([i \in 1..(IF Len(pgs) > 0 THEN 1 ELSE 0) |-> NavLink(pgs, i)])
    \o <<NavClose>>

\* NavbarRender walking the page list from its end.
NavbarRenderReversed(pgs) ==
  <<NavOpen>> \o Flatten([i \in 1..Len(pgs) |-> NavLink(pgs, Len(pgs) + 1 - i)]) \o <<NavClose>>

\* NavbarBuilder.Render over the site's page list.
NavbarRender(pgs) ==
  <<NavOpen>> \o Flatten([i \in 1..Len(pgs) |-> NavLink(pgs, i)]) \o <<NavClose>>

\* Site.PageCount
PageCount(pgs) == Len(pgs)

\* BuildNav putting the navbar's CSS in front of the stored blocks.
BuildNavFront(pgs, css, js) ==
  [ret |-> NavbarRender(pgs),
   css |-> IF \E i \in 1..Len(css) : css[i].Content = NavbarRenderCSS THEN css
           ELSE <<[Content |-> NavbarRenderCSS]>> \o css,
   js  |-> AddJS(js, NavbarRenderJS)]

\* BuildNav appending the navbar's assets without going through AddCSS / AddJS.
BuildNavAppend(pgs, css, js) ==
  [ret |-> NavbarRender(pgs),
   css |-> Append(css, [Content |-> NavbarRenderCSS]),
   js  |-> Append(js, [Content |-> NavbarRenderJS])]

\* Site.BuildNav: the returned markup and the two registries after the call.
BuildNav(pgs, css, js) ==
  [ret |-> NavbarRender(pgs),
   css |-> AddCSS(css, NavbarRenderCSS),
   js  |-> AddJS(js, NavbarRenderJS)]

\* ------------------------------------------------------------------ section
\* SectionID lower-casing and hyphenating an explicit identifier as well.
SectionIDLowered(sec) ==
  Replace(ToLower(IF sec.ModuleID = <<>> THEN sec.Title ELSE sec.ModuleID), " ", "-")

\* The identifier Section.Render puts on the wrapper element.
SectionID(sec) ==
  IF sec.ModuleID = <<>> THEN Replace(ToLower(sec.Title), " ", "-") ELSE sec.ModuleID

\* ItemHTML without the HTMLRenderer check.
ItemHTMLUnchecked(item) == <<"    ">> \o item.html \o <<"\n">>

\* What Section.Render writes for one item of s.content.
ItemHTML(item) ==
  IF item.hasHTML THEN <<"    ">> \o item.html \o <<"\n">> ELSE <<>>

\* Section.Render
SectionRender(sec) ==
  <<"<section id=\"">> \o EscapeAttr(SectionID(sec)) \o <<"\" class=\"page\">\n">>
    \o (IF sec.Title # <<>>
        THEN <<"  <h1>">> \o EscapeHTML(sec.Title) \o <<"</h1>\n">>
        ELSE <<>>)
    \o <<"  <div class=\"card-container\">\n">>
    \o Flatten([k \in 1..Len(sec.content) |-> ItemHTML(sec.content[k])])
    \o <<"  </div>\n", "</section>\n">>

\* ------------------------------------------------------------------ page
\* What page.RenderHTML writes before the title.
Preamble ==
  "<!DOCTYPE html>\n<html lang=\"es\">\n<head>\n  <meta charset=\"UTF-8\">\n  <meta name=\"viewport\" content=\"width=device-width, initial-scale-1.0\">\n"

StyleLink == "  <link rel=\"stylesheet\" href=\"style.css\">\n"

MainOpen == "  <main class=\"content\">\n"

ScriptInclude == "  <script src=\"script.js\"></script>\n"

\* RenderHTML writing the navigation behind the main-content wrapper.
RenderHTMLNavLast(pgs, p, css, js) ==
  LET pg  == pgs[p]
      nav == IF PageCount(pgs) > 1
             THEN BuildNav(pgs, css, js)
             ELSE [ret |-> <<>>, css |-> css, js |-> js]
  IN [ret |-> <<Preamble, "  <title>">> \o EscapeHTML(pg.title) \o <<"</title>\n", StyleLink>>
                \o Flatten([h \in 1..Len(pg.head) |-> <<"  ">> \o pg.head[h] \o <<"\n">>])
                \o <<"</head>\n<body>\n">>
                \o <<MainOpen>>
                \o Flatten([k \in 1..Len(pg.sections) |-> SectionRender(pg.sections[k])])
                \o <<"  </main>\n">>
                \o nav.ret
                \o <<ScriptInclude, "</body>\n</html>\n">>,
      css |-> nav.css,
      js  |-> nav.js]

\* RenderHTML building the navigation as soon as one page is registered.
RenderHTMLNavAtOne(pgs, p, css, js) ==
  LET pg  == pgs[p]
      nav == IF PageCount(pgs) > 0
             THEN BuildNav(pgs, css, js)
             ELSE [ret |-> <<>>, css |-> css, js |-> js]
  IN [ret |-> <<Preamble, "  <title>">> \o EscapeHTML(pg.title) \o <<"</title>\n", StyleLink>>
                \o Flatten([h \in 1..Len(pg.head) |-> <<"  ">> \o pg.head[h] \o <<"\n">>])
                \o <<"</head>\n<body>\n">>
                \o nav.ret
                \o <<MainOpen>>
                \o Flatten([k \in 1..Len(pg.sections) |-> SectionRender(pg.sections[k])])
                \o <<"  </main>\n", ScriptInclude, "</body>\n</html>\n">>,
      css |-> nav.css,
      js  |-> nav.js]

\* RenderHTML marking the rendered page's own link as the home link.
RenderHTMLOwnHome(pgs, p, css, js) ==
  LET pg  == pgs[p]
      own == <<NavOpen>>
               \o Flatten([i \in 1..Len(pgs) |->
                    <<(IF i = p THEN HomeLinkOpen ELSE LinkOpen)>>
                      \o EscapeAttr(pgs[i].filename) \o <<"\">">>
                      \o EscapeHTML(pgs[i].title) \o <<"</a>\n">>])
               \o <<NavClose>>
      nav == IF PageCount(pgs) > 1
             THEN [BuildNav(pgs, css, js) EXCEPT !.ret = own]
             ELSE [ret |-> <<>>, css |-> css, js |-> js]
  IN [ret |-> <<Preamble, "  <title>">> \o EscapeHTML(pg.title) \o <<"</title>\n", StyleLink>>
                \o Flatten([h \in 1..Len(pg.head) |-> <<"  ">> \o pg.head[h] \o <<"\n">>])
                \o <<"</head>\n<body>\n">>
                \o nav.ret
                \o <<MainOpen>>
                \o Flatten([k \in 1..Len(pg.sections) |-> SectionRender(pg.sections[k])])
                \o <<"  </main>\n", ScriptInclude, "</body>\n</html>\n">>,
      css |-> nav.css,
      js  |-> nav.js]

\* page.RenderHTML on the p-th page: the returned document and the two
\* registries after the call (BuildNav registers the navbar's assets).
RenderHTML(pgs, p, css, js) ==
  LET pg  == pgs[p]
      nav == IF PageCount(pgs) > 1
             THEN BuildNav(pgs, css, js)
             ELSE [ret |-> <<>>, css |-> css, js |-> js]
  IN [ret |-> <<Preamble, "  <title>">> \o EscapeHTML(pg.title) \o <<"</title>\n", StyleLink>>
                \o Flatten([h \in 1..Len(pg.head) |-> <<"  ">> \o pg.head[h] \o <<"\n">>])
                \o <<"</head>\n<body>\n">>
                \o nav.ret
                \o <<MainOpen>>
                \o Flatten([k \in 1..Len(pg.sections) |-> SectionRender(pg.sections[k])])
                \o <<"  </main>\n", ScriptInclude, "</body>\n</html>\n">>,
      css |-> nav.css,
      js  |-> nav.js]

\* ------------------------------------------------------------------ generate
PathJoin(dir, name) == dir \o <<"/">> \o name

\* Site.generateBaseCSS: the colour variables and reset styles.
generateBaseCSS == <<":root { --color-primary: #3f88bf; }\n">>

\* One Cfg.WriteFile call: the k-th call of this Generate fails when k = failAt.
WriteFile(st, path, content, failAt) ==
  LET ok == Len(st.sink) + 1 # failAt
  IN [st EXCEPT !.sink = Append(@, [path |-> path, content |-> content, ok |-> ok]),
                !.err = ~ok]

\* BlockLines writing the blocks without the newline behind each.
BlockLinesNoNewline(blocks) == [k \in 1..Len(blocks) |-> blocks[k].Content]

\* The bundle text the write functions build in s.buff from a block list.
BlockLines(blocks) == Flatten([k \in 1..Len(blocks) |-> <<blocks[k].Content, "\n">>])

\* writeCSSFile without the s.buff.Reset() call.
writeCSSFileNoReset(st, failAt) ==
  IF Len(st.css) = 0 THEN st
  ELSE LET b == st.buff \o generateBaseCSS \o BlockLines(st.css)
       IN WriteFile([st EXCEPT !.buff = b], PathJoin(OutputDir, <<"style.css">>), b, failAt)

\* Site.writeCSSFile (s.buff is reset, then filled)
writeCSSFile(st, failAt) ==
  IF Len(st.css) = 0 THEN st
  ELSE LET b == generateBaseCSS \o BlockLines(st.css)
       IN WriteFile([st EXCEPT !.buff = b], PathJoin(OutputDir, <<"style.css">>), b, failAt)

\* writeJSFile without the early return on an empty registry.
writeJSFileAlways(st, failAt) ==
  LET b == BlockLines(st.js)
  IN WriteFile([st EXCEPT !.buff = b], PathJoin(OutputDir, <<"script.js">>), b, failAt)

\* Site.writeJSFile (s.buff is reset, then filled)
writeJSFile(st, failAt) ==
  IF Len(st.js) = 0 THEN st
  ELSE LET b == BlockLines(st.js)
       IN WriteFile([st EXCEPT !.buff = b], PathJoin(OutputDir, <<"script.js">>), b, failAt)

\* The page loop leaving out a page whose output name was written already.
RECURSIVE GeneratePagesOnce(_, _, _, _)
GeneratePagesOnce(pgs, i, st, failAt) ==
  IF i > Len(pgs) THEN st
  ELSE IF \E k \in 1..Len(st.sink) : st.sink[k].path = PathJoin(OutputDir, pgs[i].filename)
  THEN GeneratePagesOnce(pgs, i + 1, st, failAt)
  ELSE LET r  == RenderHTML(pgs, i, st.css, st.js)
           s1 == WriteFile([st EXCEPT !.css = r.css, !.js = r.js],
                           PathJoin(OutputDir, pgs[i].filename), r.ret, failAt)
       IN IF s1.err THEN s1 ELSE GeneratePagesOnce(pgs, i + 1, s1, failAt)

\* The page loop going on to the next page after a failed write.
RECURSIVE GeneratePagesNoReturn(_, _, _, _)
GeneratePagesNoReturn(pgs, i, st, failAt) ==
  IF i > Len(pgs) THEN st
  ELSE LET r  == RenderHTML(pgs, i, st.css, st.js)
           s1 == WriteFile([st EXCEPT !.css = r.css, !.js = r.js],
                           PathJoin(OutputDir, pgs[i].filename), r.ret, failAt)
       IN GeneratePagesNoReturn(pgs, i + 1, s1, failAt)

\* The page loop of Site.Generate from the i-th page on.
RECURSIVE GeneratePages(_, _, _, _)
GeneratePages(pgs, i, st, failAt) ==
  IF i > Len(pgs) THEN st
  ELSE LET r  == RenderHTML(pgs, i, st.css, st.js)
           s1 == WriteFile([st EXCEPT !.css = r.css, !.js = r.js],
                           PathJoin(OutputDir, pgs[i].filename), r.ret, failAt)
       IN IF s1.err THEN s1 ELSE GeneratePages(pgs, i + 1, s1, failAt)

\* Generate writing the behavior bundle before the style bundle.
GenerateScriptFirst(pgs, css, js, b, failAt) ==
  LET s0 == [css |-> css, js |-> js, buff |-> b, sink |-> <<>>, err |-> FALSE]
      s1 == GeneratePages(pgs, 1, s0, failAt)
      s2 == IF s1.err THEN s1 ELSE writeJSFile(s1, failAt)
  IN IF s2.err THEN s2 ELSE writeCSSFile(s2, failAt)

\* Generate writing the two bundles before the pages.
GenerateBundlesFirst(pgs, css, js, b, failAt) ==
  LET s0 == [css |-> css, js |-> js, buff |-> b, sink |-> <<>>, err |-> FALSE]
      s1 == writeCSSFile(s0, failAt)
      s2 == IF s1.err THEN s1 ELSE writeJSFile(s1, failAt)
  IN IF s2.err THEN s2 ELSE GeneratePages(pgs, 1, s2, failAt)

\* Site.Generate: the site's registries and buffer after the call, the
\* WriteFile calls it made and whether it returned an error.
Generate(pgs, css, js, b, failAt) ==
  LET s0 == [css |-> css, js |-> js, buff |-> b, sink |-> <<>>, err |-> FALSE]
      s1 == GeneratePages(pgs, 1, s0, failAt)
      s2 == IF s1.err THEN s1 ELSE writeCSSFile(s1, failAt)
  IN IF s2.err THEN s2 ELSE writeJSFile(s2, failAt)

\* ------------------------------------------------------------------ Init
Init ==
  /\ pages = <<>>
  /\ cssBlocks = <<>>
  /\ jsBlocks = <<>>
  /\ buff = <<>>
  /\ sink = <<>>
  /\ call = [op |-> "New"]
  /\ cssOffered = {}
  /\ jsOffered = {}
  /\ lastGen = NoGen
  /\ repeat = NoRepeat
  /\ threads = [t \in Threads |-> Idle]

\* ------------------------------------------------------------------ build phase
\* Number of pages, sections, components, head fragments and explicit section
\* identifiers in the tree.
TreeSize ==
  LET RECURSIVE SumS(_, _)
      SumS(p, j) == IF j = 0 THEN 0
                    ELSE 1 + Len(pages[p].sections[j].content)
                           + (IF pages[p].sections[j].ModuleID = <<>> THEN 0 ELSE 1)
                           + SumS(p, j - 1)
      RECURSIVE SumP(_)
      SumP(i) == IF i = 0 THEN 0
                 ELSE 1 + Len(pages[i].head) + SumS(i, Len(pages[i].sections)) + SumP(i - 1)
  IN SumP(Len(pages))

\* NewPage putting the new page in front of the registered ones.
NewPageFront(title, filename) ==
  /\ Len(pages) < MaxPages
  /\ TreeSize < MaxTree
  /\ pages' = <<[title |-> title, filename |-> filename,
                 sections |-> <<>>, head |-> <<>>]>> \o pages
  /\ call' = [op |-> "NewPage", page |-> Len(pages) + 1]
  /\ lastGen' = NoGen
  /\ repeat' = NoRepeat
  /\ sink' = <<>>
  /\ UNCHANGED <<cssBlocks, jsBlocks, buff, cssOffered, jsOffered, threads>>

\* Site.NewPage(title, filename)
NewPage(title, filename) ==
  /\ Len(pages) < MaxPages
  /\ TreeSize < MaxTree
  /\ pages' = Append(pages, [title |-> title, filename |-> filename,
                             sections |-> <<>>, head |-> <<>>])
  /\ call' = [op |-> "NewPage", page |-> Len(pages) + 1]
  /\ lastGen' = NoGen
  /\ repeat' = NoRepeat
  /\ sink' = <<>>
  /\ UNCHANGED <<cssBlocks, jsBlocks, buff, cssOffered, jsOffered, threads>>

\* Site.AddCSS(css), called directly on the Site
SiteAddCSS(css) ==
  /\ cssBlocks' = AddCSS(cssBlocks, css)
  /\ cssOffered' = cssOffered \cup ({css} \ {""})
  /\ call' = [op |-> "AddCSS", text |-> css]
  /\ lastGen' = NoGen
  /\ repeat' = NoRepeat
  /\ sink' = <<>>
  /\ UNCHANGED <<pages, jsBlocks, buff, jsOffered, threads>>

\* AddJS skipping a text that the CSS registry holds already.
SiteAddJSAcross(js) ==
  /\ jsBlocks' = IF \E i \in 1..Len(cssBlocks) : cssBlocks[i].Content = js
                 THEN jsBlocks ELSE AddJS(jsBlocks, js)
  /\ jsOffered' = jsOffered \cup ({js} \ {""})
  /\ call' = [op |-> "AddJS", text |-> js]
  /\ lastGen' = NoGen
  /\ repeat' = NoRepeat
  /\ sink' = <<>>
  /\ UNCHANGED <<pages, cssBlocks, buff, cssOffered, threads>>

\* Site.AddJS(js), called directly on the Site
SiteAddJS(js) ==
  /\ jsBlocks' = AddJS(jsBlocks, js)
  /\ jsOffered' = jsOffered \cup ({js} \ {""})
  /\ call' = [op |-> "AddJS", text |-> js]
  /\ lastGen' = NoGen
  /\ repeat' = NoRepeat
  /\ sink' = <<>>
  /\ UNCHANGED <<pages, cssBlocks, buff, cssOffered, threads>>

\* page.NewSection(title) on the p-th page
NewSection(p, title) ==
  /\ TreeSize < MaxTree
  /\ pages' = [pages EXCEPT ![p].sections =
                 Append(@, [Title |-> title, ModuleID |-> <<>>, content |-> <<>>])]
  /\ call' = [op |-> "NewSection", page |-> p, section |-> Len(pages[p].sections) + 1]
  /\ lastGen' = NoGen
  /\ repeat' = NoRepeat
  /\ sink' = <<>>
  /\ UNCHANGED <<cssBlocks, jsBlocks, buff, cssOffered, jsOffered, threads>>

\* AddHead reaching every page of the site through the back-reference.
AddHeadEverywhere(p, content) ==
  /\ TreeSize < MaxTree
  /\ pages' = [q \in 1..Len(pages) |-> [pages[q] EXCEPT !.head = Append(@, content)]]
  /\ call' = [op |-> "AddHead", page |-> p]
  /\ lastGen' = NoGen
  /\ repeat' = NoRepeat
  /\ sink' = <<>>
  /\ UNCHANGED <<cssBlocks, jsBlocks, buff, cssOffered, jsOffered, threads>>

\* page.AddHead(content) on the p-th page
AddHead(p, content) ==
  /\ TreeSize < MaxTree
  /\ pages' = [pages EXCEPT ![p].head = Append(@, content)]
  /\ call' = [op |-> "AddHead", page |-> p]
  /\ lastGen' = NoGen
  /\ repeat' = NoRepeat
  /\ sink' = <<>>
  /\ UNCHANGED <<cssBlocks, jsBlocks, buff, cssOffered, jsOffered, threads>>

\* An assignment to the exported field Section.ModuleID of the s-th section of
\* the p-th page (each section is given an identifier at most once)
SetModuleID(p, s, id) ==
  /\ TreeSize < MaxTree
  /\ pages[p].sections[s].ModuleID = <<>>
  /\ pages' = [pages EXCEPT ![p].sections[s].ModuleID = id]
  /\ call' = [op |-> "SetModuleID", page |-> p, section |-> s]
  /\ lastGen' = NoGen
  /\ repeat' = NoRepeat
  /\ sink' = <<>>
  /\ UNCHANGED <<cssBlocks, jsBlocks, buff, cssOffered, jsOffered, threads>>

\* SectionAdd that only appends the component, leaving its assets for later.
SectionAddLazy(p, s, component) ==
  /\ TreeSize < MaxTree
  /\ pages' = [pages EXCEPT ![p].sections[s].content = Append(@, component)]
  /\ call' = [op |-> "Add", page |-> p, section |-> s, ret |-> <<p, s>>]
  /\ lastGen' = NoGen
  /\ repeat' = NoRepeat
  /\ sink' = <<>>
  /\ UNCHANGED <<cssBlocks, jsBlocks, cssOffered, jsOffered, buff, threads>>

\* SectionAdd forwarding the component's texts without the capability casts.
SectionAddUnchecked(p, s, component) ==
  /\ TreeSize < MaxTree
  /\ pages' = [pages EXCEPT ![p].sections[s].content = Append(@, component)]
  /\ cssBlocks' = AddCSS(cssBlocks, component.css)
  /\ cssOffered' = cssOffered \cup ({component.css} \ {""})
  /\ jsBlocks' = AddJS(jsBlocks, component.js)
  /\ jsOffered' = jsOffered \cup ({component.js} \ {""})
  /\ call' = [op |-> "Add", page |-> p, section |-> s, ret |-> <<p, s>>]
  /\ lastGen' = NoGen
  /\ repeat' = NoRepeat
  /\ sink' = <<>>
  /\ UNCHANGED <<buff, threads>>

\* Section.Add(component) on the s-th section of the p-th page
SectionAdd(p, s, component) ==
  /\ TreeSize < MaxTree
  /\ pages' = [pages EXCEPT ![p].sections[s].content = Append(@, component)]
  /\ cssBlocks' = IF component.hasCSS THEN AddCSS(cssBlocks, component.css) ELSE cssBlocks
  /\ cssOffered' = IF component.hasCSS THEN cssOffered \cup ({component.css} \ {""}) ELSE cssOffered
  /\ jsBlocks' = IF component.hasJS THEN AddJS(jsBlocks, component.js) ELSE jsBlocks
  /\ jsOffered' = IF component.hasJS THEN jsOffered \cup ({component.js} \ {""}) ELSE jsOffered
  /\ call' = [op |-> "Add", page |-> p, section |-> s, ret |-> <<p, s>>]
  /\ lastGen' = NoGen
  /\ repeat' = NoRepeat
  /\ sink' = <<>>
  /\ UNCHANGED <<buff, threads>>

\* The build operations, with their arguments drawn from the given sets.
Build(titles, heads) ==
  \/ \E a \in PageArgs : NewPage(a[1], a[2])
  \/ \E x \in DirectTexts : SiteAddCSS(x)
  \/ \E x \in DirectTexts : SiteAddJS(x)
  \/ \E p \in 1..Len(pages) : \E t \in titles : NewSection(p, t)
  \/ \E p \in 1..Len(pages) : \E h \in heads : AddHead(p, h)
  \/ \E p \in 1..Len(pages) : \E s \in 1..Len(pages[p].sections) :
       \E c \in Components : SectionAdd(p, s, c)

\* ------------------------------------------------------------------ render phase
\* A call of Site.BuildNav
DoBuildNav ==
  \E r \in {BuildNav(pages, cssBlocks, jsBlocks)} :
     /\ cssBlocks' = r.css
     /\ jsBlocks' = r.js
     /\ cssOffered' = cssOffered \cup {NavbarRenderCSS}
     /\ jsOffered' = jsOffered \cup {NavbarRenderJS}
     /\ call' = [op |-> "BuildNav", ret |-> r.ret]
     /\ sink' = <<>>
     /\ lastGen' = IF lastGen.ok THEN [lastGen EXCEPT !.nav = TRUE] ELSE lastGen
     /\ repeat' = NoRepeat
     /\ UNCHANGED <<pages, buff, threads>>

\* RenderHTML handing the document it built to the sink.
DoRenderHTMLWriting(p) ==
  \E r \in {RenderHTML(pages, p, cssBlocks, jsBlocks)} :
     /\ cssBlocks' = r.css
     /\ jsBlocks' = r.js
     /\ cssOffered' = IF PageCount(pages) > 1 THEN cssOffered \cup {NavbarRenderCSS}
                      ELSE cssOffered
     /\ jsOffered' = IF PageCount(pages) > 1 THEN jsOffered \cup {NavbarRenderJS}
                     ELSE jsOffered
     /\ call' = [op |-> "RenderHTML", page |-> p, ret |-> r.ret]
     /\ sink' = <<[path |-> PathJoin(OutputDir, pages[p].filename), content |-> r.ret,
                   ok |-> TRUE]>>
     /\ repeat' = NoRepeat
     /\ UNCHANGED <<pages, buff, threads, lastGen>>

\* A call of page.RenderHTML on the p-th page
DoRenderHTML(p) ==
  \E r \in {RenderHTML(pages, p, cssBlocks, jsBlocks)} :
     /\ cssBlocks' = r.css
     /\ jsBlocks' = r.js
     /\ cssOffered' = IF PageCount(pages) > 1 THEN cssOffered \cup {NavbarRenderCSS}
                      ELSE cssOffered
     /\ jsOffered' = IF PageCount(pages) > 1 THEN jsOffered \cup {NavbarRenderJS}
                     ELSE jsOffered
     /\ call' = [op |-> "RenderHTML", page |-> p, ret |-> r.ret]
     /\ sink' = <<>>
     /\ repeat' = NoRepeat
     /\ UNCHANGED <<pages, buff, threads, lastGen>>

\* A call of Section.Render on the s-th section of the p-th page
DoSectionRender(p, s) ==
  /\ call' = [op |-> "Render", page |-> p, section |-> s,
              ret |-> SectionRender(pages[p].sections[s])]
  /\ sink' = <<>>
  /\ repeat' = NoRepeat
  /\ UNCHANGED <<pages, cssBlocks, jsBlocks, buff, cssOffered, jsOffered, threads, lastGen>>

\* A call of Site.Generate; the sink fails on its failAt-th call (0: never)
DoGenerate(failAt) ==
  \E r \in {Generate(pages, cssBlocks, jsBlocks, buff, failAt)} :
  LET rendered == Len(r.sink) > 0 /\ PageCount(pages) > 1
  IN /\ cssBlocks' = r.css
     /\ jsBlocks' = r.js
     /\ buff' = r.buff
     /\ sink' = r.sink
     /\ cssOffered' = IF rendered THEN cssOffered \cup {NavbarRenderCSS} ELSE cssOffered
     /\ jsOffered' = IF rendered THEN jsOffered \cup {NavbarRenderJS} ELSE jsOffered
     /\ call' = [op |-> "Generate", err |-> r.err]
     /\ lastGen' = IF r.err THEN NoGen ELSE [ok |-> TRUE, sink |-> r.sink, nav |-> FALSE]
     /\ repeat' = IF lastGen.ok /\ ~r.err
                  THEN [cmp |-> IF r.sink = lastGen.sink THEN "same" ELSE "differs",
                        nav |-> lastGen.nav]
                  ELSE NoRepeat
     /\ UNCHANGED <<pages, threads>>

\* Build, render and generate calls in any order; the sections are titled alike.
Next ==
  \/ Build({<<"A", " ", "<">>}, HeadFragments)
  \/ DoBuildNav
  \/ \E p \in 1..Len(pages) : DoRenderHTML(p)
  \/ \E failAt \in 0..(Len(pages) + 2) : DoGenerate(failAt)

Spec == Init /\ [][Next]_vars

\* Build and render calls in any order, over every section title.
NextDoc ==
  \/ Build(SectionTitles, HeadFragmentsDoc)
  \/ \E p \in 1..Len(pages) : \E s \in 1..Len(pages[p].sections) :
       \E id \in ModuleIDs : SetModuleID(p, s, id)
  \/ DoBuildNav
  \/ \E p \in 1..Len(pages) : DoRenderHTML(p)
  \/ \E p \in 1..Len(pages) : \E s \in 1..Len(pages[p].sections) : DoSectionRender(p, s)

SpecDoc == Init /\ [][NextDoc]_vars

\* Registration of assets, directly and through Section.Add, over empty, blank
\* and ordinary texts.
NextAsset ==
  \/ \E a \in PageArgs : NewPage(a[1], a[2])
  \/ \E p \in 1..Len(pages) : NewSection(p, <<"A", " ", "<">>)
  \/ \E x \in AssetTexts : SiteAddCSS(x)
  \/ \E x \in AssetTexts : SiteAddJS(x)
  \/ \E p \in 1..Len(pages) : \E s \in 1..Len(pages[p].sections) :
       \E c \in AssetComponents : SectionAdd(p, s, c)

SpecAsset == Init /\ [][NextAsset]_vars

\* ------------------------------------------------------------------ concurrent Generate
\* Two callers run Site.Generate on the same built Site.  Each call keeps its
\* own loop positions and the WriteFile calls it has made; the page list, the
\* registries and s.buff are the Site's and are shared.  The sink never fails.

\* A Site after its build phase: two pages, the first with one section holding
\* one component that contributes the same text as CSS and as JS.
BuiltSite ==
  /\ pages = << [title |-> <<"A", " ", "b">>, filename |-> <<"i">>,
                 sections |-> << [Title |-> <<"A", " ", "<">>, ModuleID |-> <<>>,
                                  content |-> << [hasHTML |-> FALSE, html |-> <<>>,
                                                  hasCSS |-> TRUE, css |-> BlockX,
                                                  hasJS |-> TRUE, js |-> BlockX] >>] >>,
                 head |-> <<>>],
                [title |-> <<"<", "\"", ">">>, filename |-> <<"c", "\"">>,
                 sections |-> <<>>, head |-> <<>>] >>
  /\ cssBlocks = <<[Content |-> BlockX]>>
  /\ jsBlocks = <<[Content |-> BlockX]>>
  /\ buff = <<>>
  /\ sink = <<>>
  /\ call = [op |-> "Add", page |-> 1, section |-> 1, ret |-> <<1, 1>>]
  /\ cssOffered = {BlockX}
  /\ jsOffered = {BlockX}
  /\ lastGen = NoGen
  /\ repeat = NoRepeat

InitConc == BuiltSite /\ threads = [t \in Threads |-> Idle]

Shared == <<pages, sink, call, cssOffered, jsOffered, lastGen, repeat>>

\* Generate is entered.
Start(t) ==
  /\ threads[t].pc = "idle"
  /\ threads' = [threads EXCEPT ![t] =
                   [pc |-> IF Len(pages) = 0 THEN "css" ELSE "page", i |-> 1, out |-> <<>>]]
  /\ UNCHANGED <<Shared, cssBlocks, jsBlocks, buff>>

\* One turn of the page loop: page.RenderHTML, then Cfg.WriteFile.
PageStep(t) ==
  /\ threads[t].pc = "page"
  /\ \E r \in {RenderHTML(pages, threads[t].i, cssBlocks, jsBlocks)} :
       /\ cssBlocks' = r.css
       /\ jsBlocks' = r.js
       /\ threads' = [threads EXCEPT ![t] =
            [pc  |-> IF threads[t].i = Len(pages) THEN "css" ELSE "page",
             i   |-> threads[t].i + 1,
             out |-> Append(threads[t].out,
                            [path |-> PathJoin(OutputDir, pages[threads[t].i].filename),
                             content |-> r.ret, ok |-> TRUE])]]
  /\ UNCHANGED <<Shared, buff>>

\* writeCSSFile: the empty check, then s.buff.Reset().
CssReset(t) ==
  /\ threads[t].pc = "css"
  /\ IF Len(cssBlocks) = 0
     THEN /\ threads' = [threads EXCEPT ![t].pc = "js"]
          /\ UNCHANGED buff
     ELSE /\ threads' = [threads EXCEPT ![t].pc = "cssBase"]
          /\ buff' = <<>>
  /\ UNCHANGED <<Shared, cssBlocks, jsBlocks>>

\* writeCSSFile: s.buff.Write(s.generateBaseCSS()).
CssBase(t) ==
  /\ threads[t].pc = "cssBase"
  /\ buff' = buff \o generateBaseCSS
  /\ threads' = [threads EXCEPT ![t].pc = "cssBlock", ![t].i = 1]
  /\ UNCHANGED <<Shared, cssBlocks, jsBlocks>>

\* writeCSSFile: one turn of the loop over s.cssBlocks.
CssBlock(t) ==
  /\ threads[t].pc = "cssBlock"
  /\ threads[t].i <= Len(cssBlocks)
  /\ buff' = buff \o <<cssBlocks[threads[t].i].Content, "\n">>
  /\ threads' = [threads EXCEPT ![t].i = @ + 1]
  /\ UNCHANGED <<Shared, cssBlocks, jsBlocks>>

\* writeCSSFile: Cfg.WriteFile(cssPath, s.buff.String()).
CssWrite(t) ==
  /\ threads[t].pc = "cssBlock"
  /\ threads[t].i > Len(cssBlocks)
  /\ threads' = [threads EXCEPT ![t].pc = "js",
                   ![t].out = Append(@, [path |-> PathJoin(OutputDir, <<"style.css">>),
                                         content |-> buff, ok |-> TRUE])]
  /\ UNCHANGED <<Shared, cssBlocks, jsBlocks, buff>>

\* writeJSFile: the empty check, then s.buff.Reset().
JsReset(t) ==
  /\ threads[t].pc = "js"
  /\ IF Len(jsBlocks) = 0
     THEN /\ threads' = [threads EXCEPT ![t].pc = "done"]
          /\ UNCHANGED buff
     ELSE /\ threads' = [threads EXCEPT ![t].pc = "jsBlock", ![t].i = 1]
          /\ buff' = <<>>
  /\ UNCHANGED <<Shared, cssBlocks, jsBlocks>>

\* writeJSFile: one turn of the loop over s.jsBlocks.
JsBlock(t) ==
  /\ threads[t].pc = "jsBlock"
  /\ threads[t].i <= Len(jsBlocks)
  /\ buff' = buff \o <<jsBlocks[threads[t].i].Content, "\n">>
  /\ threads' = [threads EXCEPT ![t].i = @ + 1]
  /\ UNCHANGED <<Shared, cssBlocks, jsBlocks>>

\* writeJSFile: Cfg.WriteFile(jsPath, s.buff.String()); Generate returns.
JsWrite(t) ==
  /\ threads[t].pc = "jsBlock"
  /\ threads[t].i > Len(jsBlocks)
  /\ threads' = [threads EXCEPT ![t].pc = "done",
                   ![t].out = Append(@, [path |-> PathJoin(OutputDir, <<"script.js">>),
                                         content |-> buff, ok |-> TRUE])]
  /\ UNCHANGED <<Shared, cssBlocks, jsBlocks, buff>>

NextConc ==
  \E t \in Threads :
    \/ Start(t)
    \/ PageStep(t)
    \/ CssReset(t)
    \/ CssBase(t)
    \/ CssBlock(t)
    \/ CssWrite(t)
    \/ JsReset(t)
    \/ JsBlock(t)
    \/ JsWrite(t)

SpecConc == InitConc /\ [][NextConc]_vars

\* ================================================================== properties
Contents(blocks) == { blocks[i].Content : i \in 1..Len(blocks) }

NoDuplicate(blocks) == \A i, j \in 1..Len(blocks) : blocks[i] = blocks[j] => i = j

\* What one step may do to a registry: the stored blocks keep their index, a
\* block is appended only for a text never offered before, and afterwards the
\* registry holds every non-empty text offered so far exactly once.
DedupStep(blocks, blocksAfter, offered, offeredAfter) ==
  /\ IsPrefix(blocks, blocksAfter)
  /\ \A i \in (Len(blocks) + 1)..Len(blocksAfter) : blocksAfter[i].Content \notin offered
  /\ Contents(blocksAfter) = offeredAfter
  /\ "" \notin Contents(blocksAfter)
  /\ NoDuplicate(blocksAfter)

\* C1: each registry holds exactly the distinct non-empty texts offered to it
\* through AddCSS / AddJS (directly, by Section.Add or by BuildNav), each once
\* and in order of first offer: re-offering a stored text changes nothing and
\* a new text is appended at the end.
C1_DedupFirstOffer ==
  [][ /\ DedupStep(cssBlocks, cssBlocks', cssOffered, cssOffered')
      /\ DedupStep(jsBlocks, jsBlocks', jsOffered, jsOffered') ]_vars

\* A stored text is offered again by a direct AddCSS after another block was
\* appended behind it: it is still the first block, stored once.
C1_Witness ==
  /\ call.op = "AddCSS" /\ call.text = BlockX
  /\ cssBlocks = <<[Content |-> BlockX], [Content |-> NavbarRenderCSS]>>
  /\ \E p \in 1..Len(pages) : \E k \in 1..Len(pages[p].sections) :
       \E c \in Range(pages[p].sections[k].content) : c.hasCSS /\ c.css = BlockX

\* C2: Generate returns an error exactly when one of its WriteFile calls
\* failed, and that call is its last one: every earlier call succeeded and
\* stays as made, nothing is written or retried after the failure, and the
\* calls made are the first calls of what the same Generate hands the sink
\* when no write fails.
C2_FailFast ==
  call.op = "Generate" =>
    LET full   == Generate(pages, cssBlocks, jsBlocks, buff, 0).sink
        failed == { i \in 1..Len(sink) : ~sink[i].ok }
    IN /\ call.err <=> failed # {}
       /\ failed \subseteq {Len(sink)}
       /\ Len(sink) <= Len(full)
       /\ \A i \in 1..Len(sink) :
            sink[i].path = full[i].path /\ sink[i].content = full[i].content

\* The write of the second page fails: the first page stays written and
\* neither bundle is attempted.
C2_Witness ==
  /\ call.op = "Generate" /\ call.err
  /\ Len(pages) = 2 /\ Len(sink) = 2 /\ sink[1].ok
  /\ Len(cssBlocks) > 0 /\ Len(jsBlocks) > 0

StylePath == PathJoin(OutputDir, <<"style.css">>)

ScriptPath == PathJoin(OutputDir, <<"script.js">>)

C4_SameTwice == repeat.cmp # "differs"

\* C4 (amended): with no build operation and no failed write between them,
\* and no BuildNav call between them unless the site has more than one page,
\* two successive Generate calls make the same WriteFile calls, names and
\* contents alike.
C4_Deterministic ==
  repeat.cmp = "differs" => (repeat.nav /\ Len(pages) <= 1)

\* A second successful Generate on a two-page site with both bundles, after a
\* first one and a BuildNav call in between.
C4_Witness ==
  /\ repeat.cmp = "same" /\ repeat.nav
  /\ Len(pages) = 2 /\ Len(sink) = 4
  /\ \E p \in 1..2 : Len(pages[p].sections) > 0

RenderOps == {"BuildNav", "RenderHTML", "Render"}

\* Registries a BuildNav call may meet.
SomeRegistries ==
  { <<>>, <<[Content |-> BlockX]>>, <<[Content |-> NavbarRenderCSS]>>,
    <<[Content |-> NavbarRenderJS], [Content |-> BlockX]>> }

\* BuildNav's markup is the same whatever the registries hold.
NavOfPagesOnly ==
  \E nav \in {BuildNav(pages, cssBlocks, jsBlocks).ret} :
    \A c, j \in SomeRegistries : BuildNav(pages, c, j).ret = nav

\* C5 as stated: BuildNav, RenderHTML and Section.Render leave the page list
\* and both registries as they were.
C5_RendersReadOnly ==
  [][ call'.op \in RenderOps =>
        /\ pages' = pages /\ cssBlocks' = cssBlocks /\ jsBlocks' = jsBlocks
        /\ (call'.op = "BuildNav" => NavOfPagesOnly) ]_vars

\* What a step that registers the navbar's asset does to a registry.
NavAssetStep(blocks, blocksAfter, text) ==
  IF text \in Contents(blocks) THEN blocksAfter = blocks
  ELSE blocksAfter = Append(blocks, [Content |-> text])

\* C5 (amended): the three calls leave the page list as it was; Section.Render,
\* and RenderHTML on a site of at most one page, leave both registries as they
\* were; BuildNav, and RenderHTML on a site of more than one page, change a
\* registry only by appending the navbar's own block when it is not stored
\* yet; BuildNav's markup depends on the page list only.
C5_RendersKeepPages ==
  [][ call'.op \in RenderOps =>
        /\ pages' = pages
        /\ (call'.op = "BuildNav" => NavOfPagesOnly)
        /\ IF call'.op = "BuildNav" \/ (call'.op = "RenderHTML" /\ Len(pages) > 1)
           THEN /\ NavAssetStep(cssBlocks, cssBlocks', NavbarRenderCSS)
                /\ NavAssetStep(jsBlocks, jsBlocks', NavbarRenderJS)
           ELSE cssBlocks' = cssBlocks /\ jsBlocks' = jsBlocks ]_vars

\* RenderHTML on a two-page site has just appended the navbar's CSS block
\* behind a component's block.
C5_Witness ==
  /\ call.op = "RenderHTML" /\ Len(pages) = 2
  /\ cssBlocks = <<[Content |-> BlockX], [Content |-> NavbarRenderCSS]>>
  /\ Len(jsBlocks) >= 1 /\ jsBlocks[Len(jsBlocks)].Content = NavbarRenderJS

\* The positions of the link openers in a navigation block, in order.
LinkStarts(nav) == { i \in 1..Len(nav) : nav[i] \in {HomeLinkOpen, LinkOpen} }

\* The chunks of the k-th link of a navigation block.
NthLink(nav, k) ==
  LET starts == LinkStarts(nav)
      from   == CHOOSE i \in starts : Cardinality({ j \in starts : j < i }) = k - 1
      later  == { j \in starts : j > from }
      to     == IF later = {} THEN Len(nav) - 1
                ELSE (CHOOSE j \in later : \A l \in later : j <= l) - 1
  IN SubSeq(nav, from, to)

\* C7: with n >= 2 pages registered, BuildNav returns exactly n links, the
\* i-th one targeting the i-th page's output name and labelled with its title
\* (both escaped), in registration order.
C7_NavLinksInOrder ==
  (call.op = "BuildNav" /\ Len(pages) >= 2) =>
    /\ Cardinality(LinkStarts(call.ret)) = Len(pages)
    /\ \A i \in 1..Len(pages) :
         LET link == NthLink(call.ret, i)
         IN /\ SubSeq(link, 2, Len(link) - 1) =
                 EscapeAttr(pages[i].filename) \o <<"\">">> \o EscapeHTML(pages[i].title)
            /\ link[Len(link)] = "</a>\n"

\* BuildNav on two pages that differ in title and output name.
C7_Witness ==
  /\ call.op = "BuildNav" /\ Len(pages) = 2
  /\ pages[1].filename # pages[2].filename /\ pages[1].title # pages[2].title
  /\ Cardinality(LinkStarts(call.ret)) = 2

HasNav(doc) == \E i \in 1..Len(doc) : doc[i] = NavOpen

\* C8: the document RenderHTML returns holds the navigation block exactly when
\* more than one page is registered at that moment.
C8_NavIffSeveralPages ==
  call.op = "RenderHTML" => (HasNav(call.ret) <=> Len(pages) > 1)

\* The only page of a one-page site is rendered, without navigation.
C8_Witness ==
  /\ call.op = "RenderHTML" /\ Len(pages) = 1 /\ ~HasNav(call.ret)
  /\ Len(pages[1].sections) > 0

AllComponents ==
  UNION { UNION { Range(pages[p].sections[k].content) : k \in 1..Len(pages[p].sections) } :
            p \in 1..Len(pages) }

\* C9: when Section.Add returns, the component's non-empty CSS and JS texts
\* are stored in the registries, whether or not it has markup and with no
\* render needed, and the call returns the section it was called on.
C9_AddForwardsAtOnce ==
  /\ \A c \in AllComponents :
       /\ (c.hasCSS /\ c.css # "") => c.css \in Contents(cssBlocks)
       /\ (c.hasJS /\ c.js # "") => c.js \in Contents(jsBlocks)
  /\ call.op = "Add" =>
       /\ call.ret = <<call.page, call.section>>
       /\ Len(pages[call.page].sections[call.section].content) > 0

\* Section.Add of a component without markup has just stored its CSS and JS;
\* nothing rendered the navbar's assets into the registries.
C9_Witness ==
  /\ call.op = "Add"
  /\ LET content == pages[call.page].sections[call.section].content
         c == content[Len(content)]
     IN ~c.hasHTML /\ c.css = BlockX /\ c.js = BlockX
  /\ cssBlocks = <<[Content |-> BlockX]>>
  /\ jsBlocks = <<[Content |-> BlockX]>>

CardOpen == "  <div class=\"card-container\">\n"

CardClose == "  </div>\n"

\* The chunks Section.Render wrote between the opening and the closing of the
\* component container.
RenderedItems(doc) ==
  LET from == CHOOSE i \in 1..Len(doc) : doc[i] = CardOpen
      to   == CHOOSE i \in 1..Len(doc) : doc[i] = CardClose
  IN SubSeq(doc, from + 1, to - 1)

HasMarkup(c) == c.hasHTML

\* C10: Section.Render emits the markup of exactly the components that have
\* the markup capability, in the order they were added; the others leave no
\* trace between them.
C10_RenderSkipsNoMarkup ==
  call.op = "Render" =>
    LET kept == SelectSeq(pages[call.page].sections[call.section].content, HasMarkup)
    IN RenderedItems(call.ret) =
         Flatten([k \in 1..Len(kept) |-> <<"    ">> \o kept[k].html \o <<"\n">>])

\* Section.Render of a section holding a component without markup followed
\* by one with markup.
C10_Witness ==
  /\ call.op = "Render"
  /\ LET content == pages[call.page].sections[call.section].content
     IN Len(content) = 2 /\ ~content[1].hasHTML /\ content[2].hasHTML
  /\ Len(RenderedItems(call.ret)) = 3

\* C6: a Generate call that ran while another Generate call was running on
\* the same built Site has handed the sink exactly the names and contents
\* that a Generate running alone hands it.
C6_ConcurrentAsSequential ==
  \A t \in Threads :
    threads[t].pc = "done" =>
      threads[t].out = Generate(pages, cssBlocks, jsBlocks, buff, 0).sink


\* The characters that open or close markup when they reach a document raw.
RawSpecials == {"<", ">", "\""}

\* The entities the escaper writes for them.
Entities == {"&lt;", "&gt;", "&#34;"}

\* How many chunks of a text belong to a set of chunks.
CountIn(text, set) == Cardinality({ i \in 1..Len(text) : text[i] \in set })

RECURSIVE SumOf(_)
SumOf(ns) == IF ns = <<>> THEN 0 ELSE Head(ns) + SumOf(Tail(ns))

\* The caller-supplied texts that reach the document of the p-th page: its
\* title, every page's output name and title when the navigation is shown,
\* and each section's identifier source and title.
SuppliedTexts(p) ==
  <<pages[p].title>>
    \o (IF Len(pages) > 1
        THEN Flatten([q \in 1..Len(pages) |-> <<pages[q].filename, pages[q].title>>])
        ELSE <<>>)
    \o Flatten([k \in 1..Len(pages[p].sections) |->
          LET sec == pages[p].sections[k]
          IN <<(IF sec.ModuleID = <<>> THEN sec.Title ELSE sec.ModuleID), sec.Title>>])

\* C11: in a document returned by RenderHTML no '<', '>' or '"' of a page
\* title, section title, navigation label, link target or section identifier
\* stands raw: each of them has become its entity, one entity per character.
C11_SuppliedTextEscaped ==
  call.op = "RenderHTML" =>
    /\ CountIn(call.ret, RawSpecials) = 0
    /\ CountIn(call.ret, Entities)
         = SumOf([k \in 1..Len(SuppliedTexts(call.page)) |->
                    CountIn(SuppliedTexts(call.page)[k], RawSpecials)])

\* A page of a two-page site is rendered whose title holds '<', '"' and '>',
\* whose section carries an explicit identifier holding '"', and whose
\* navigation links to an output name holding '"'.
C11_Witness ==
  /\ call.op = "RenderHTML" /\ Len(pages) = 2
  /\ pages[call.page].title = <<"<", "\"", ">">>
  /\ \E q \in 1..2 : "\"" \in Range(pages[q].filename)
  /\ \E k \in 1..Len(pages[call.page].sections) :
       /\ "\"" \in Range(pages[call.page].sections[k].ModuleID)
       /\ "<" \in Range(pages[call.page].sections[k].Title)

\* What a step that offers a text to a registry must leave of it when the
\* offer is to be ignored.
Ignored(texts, blocks, blocksAfter, offeredText) ==
  offeredText \in texts => blocksAfter = blocks

\* The component a Section.Add call has just appended.
Added == LET content == pages[call.page].sections[call.section].content
         IN content[Len(content)]

\* An offer of a text in `texts` to a registry, made directly or through
\* Section.Add, leaves that registry as it was.
OffersIgnored(texts) ==
  /\ call'.op = "AddCSS" => Ignored(texts, cssBlocks, cssBlocks', call'.text)
  /\ call'.op = "AddJS" => Ignored(texts, jsBlocks, jsBlocks', call'.text)
  /\ call'.op = "Add" =>
       /\ Added'.hasCSS => Ignored(texts, cssBlocks, cssBlocks', Added'.css)
       /\ Added'.hasJS => Ignored(texts, jsBlocks, jsBlocks', Added'.js)

\* C12 as stated: empty and whitespace-only asset content offered to AddCSS /
\* AddJS, directly or through Section.Add, leaves the registry unchanged.
C12_BlankIgnored == [][OffersIgnored({"", Blank})]_vars

\* A blank text that is not stored yet is appended like any other text.
BlankStored(blocks, blocksAfter, offeredText) ==
  (offeredText = Blank /\ Blank \notin Contents(blocks))
    => blocksAfter = Append(blocks, [Content |-> Blank])

\* C12 (amended): empty asset content offered to AddCSS / AddJS, directly or
\* through Section.Add, leaves the registry unchanged; whitespace-only content
\* is not empty: offered for the first time it is appended as a block.
C12_EmptyIgnored ==
  [][ /\ OffersIgnored({""})
      /\ call'.op = "AddCSS" => BlankStored(cssBlocks, cssBlocks', call'.text)
      /\ call'.op = "AddJS" => BlankStored(jsBlocks, jsBlocks', call'.text)
      /\ call'.op = "Add" =>
           /\ Added'.hasCSS => BlankStored(cssBlocks, cssBlocks', Added'.css)
           /\ Added'.hasJS => BlankStored(jsBlocks, jsBlocks', Added'.js) ]_vars

\* Section.Add has just offered an empty CSS text and a blank JS text: the CSS
\* registry still holds its one block, the JS registry has taken the blank.
C12_Witness ==
  /\ call.op = "Add" /\ Added.css = "" /\ Added.js = Blank
  /\ cssBlocks = <<[Content |-> BlockX]>>
  /\ jsBlocks = <<[Content |-> Blank]>>

SectionOpen == "<section id=\""

SectionOpenEnd == "\" class=\"page\">\n"

HeadingOpen == "  <h1>"

\* The character an entity stands for, as a reader of the document decodes it.
UnescapeChar(c) ==
  CASE c = "&lt;"  -> "<"
    [] c = "&gt;"  -> ">"
    [] c = "&amp;" -> "&"
    [] c = "&#34;" -> "\""
    [] c = "&#39;" -> "'"
    [] OTHER       -> c

\* The value of the id attribute of a rendered section, decoded.
WrapperID(doc) ==
  LET close == CHOOSE i \in 1..Len(doc) : doc[i] = SectionOpenEnd /\ \A j \in 1..(i - 1) : doc[j] # SectionOpenEnd
  IN [i \in 1..(close - 2) |-> UnescapeChar(doc[i + 1])]

\* A title lower-cased, every space replaced by a hyphen.
Hyphenated(title) ==
  [i \in 1..Len(title) |-> IF title[i] = " " THEN "-" ELSE LowerChar(title[i])]

\* C13: the wrapper element of a rendered section carries the explicit
\* ModuleID, character for character, when one was set, and otherwise the
\* title lower-cased with every space replaced by a hyphen; the heading is
\* there exactly when the title is not empty, and holds the title.
C13_WrapperIdentifier ==
  call.op = "Render" =>
    LET sec == pages[call.page].sections[call.section]
    IN /\ call.ret[1] = SectionOpen
       /\ SectionOpenEnd \in Range(call.ret)
       /\ WrapperID(call.ret) = IF sec.ModuleID # <<>> THEN sec.ModuleID
                                ELSE Hyphenated(sec.Title)
       /\ (HeadingOpen \in Range(call.ret)) <=> (sec.Title # <<>>)
       /\ sec.Title # <<>> =>
            \E i \in 1..Len(call.ret) :
               /\ call.ret[i] = HeadingOpen
               /\ [k \in 1..Len(sec.Title) |-> UnescapeChar(call.ret[i + k])] = sec.Title

\* A titled section with an explicit identifier holding an upper-case letter,
\* a space and a quote has been rendered.
C13_Witness ==
  /\ call.op = "Render"
  /\ pages[call.page].sections[call.section].ModuleID = <<"B", " ", "\"">>
  /\ pages[call.page].sections[call.section].Title = <<"A", " ", "<">>

TitleOpen == "  <title>"

TitleClose == "</title>\n"

HeadEnd == "</head>\n<body>\n"

MainClose == "  </main>\n"

DocEnd == "</body>\n</html>\n"

\* The places of a chunk in a document.
Places(doc, c) == { i \in 1..Len(doc) : doc[i] = c }

\* The place of a chunk that stands in a document once.
Place(doc, c) == CHOOSE i \in 1..Len(doc) : doc[i] = c

\* The part of a document strictly between two places.
Between(doc, i, j) == SubSeq(doc, i + 1, j - 1)

\* C14: a document returned by RenderHTML holds, each once and in this order,
\* the preamble, the title, the head fragments as given and in AddHead order,
\* the navigation when the site has more than one page, the main-content
\* wrapper around the sections' rendered texts in NewSection order, and the
\* script include, with nothing else besides the stylesheet link and the
\* closing tags.
C14_FixedOrder ==
  call.op = "RenderHTML" =>
    LET doc == call.ret
        pg == pages[call.page]
    IN /\ \A c \in {Preamble, TitleOpen, TitleClose, StyleLink, HeadEnd, MainOpen,
                     MainClose, ScriptInclude, DocEnd} : Cardinality(Places(doc, c)) = 1
       /\ Cardinality(Places(doc, NavOpen)) = IF Len(pages) > 1 THEN 1 ELSE 0
       /\ Place(doc, Preamble) = 1
       /\ Place(doc, TitleOpen) = 2
       /\ Between(doc, 2, Place(doc, TitleClose)) = EscapeHTML(pg.title)
       /\ Place(doc, StyleLink) = Place(doc, TitleClose) + 1
       /\ Between(doc, Place(doc, StyleLink), Place(doc, HeadEnd))
            = Flatten([h \in 1..Len(pg.head) |-> <<"  ">> \o pg.head[h] \o <<"\n">>])
       /\ Between(doc, Place(doc, HeadEnd), Place(doc, MainOpen))
            = IF Len(pages) > 1 THEN NavbarRender(pages) ELSE <<>>
       /\ Between(doc, Place(doc, MainOpen), Place(doc, MainClose))
            = Flatten([k \in 1..Len(pg.sections) |-> SectionRender(pg.sections[k])])
       /\ Place(doc, ScriptInclude) = Place(doc, MainClose) + 1
       /\ Place(doc, DocEnd) = Place(doc, ScriptInclude) + 1
       /\ Len(doc) = Place(doc, DocEnd)

\* A page of a two-page site with two different head fragments has been
\* rendered: the fragments come before the navigation, in AddHead order.
C14_Witness ==
  /\ call.op = "RenderHTML" /\ Len(pages) = 2
  /\ Len(pages[call.page].head) = 2
  /\ pages[call.page].head[1] # pages[call.page].head[2]

\* The pages registered under the output name of the p-th page.
Namesakes(p) == { q \in 1..Len(pages) : pages[q].filename = pages[p].filename }

\* The WriteFile calls the sink received under a name.
WritesUnder(path) == { i \in 1..Len(sink) : sink[i].path = path }

Latest(S) == CHOOSE i \in S : \A j \in S : j <= i

\* C15: pages registered under one output name are all kept; NewPage appends
\* its page whatever names are taken; a successful Generate writes each of
\* them under that name, in registration order, each linking every page in
\* its navigation, and the last write under the name holds the document of
\* the page registered last.
C15_DuplicateNamesKept ==
  /\ call.op = "NewPage" =>
       call.page = Len(pages) /\ pages[call.page].sections = <<>> /\ pages[call.page].head = <<>>
  /\ (call.op = "Generate" /\ ~call.err) =>
       \A p \in 1..Len(pages) :
         LET path == PathJoin(OutputDir, pages[p].filename)
         IN /\ WritesUnder(path) = Namesakes(p)
            /\ sink[Latest(WritesUnder(path))].content
                 = RenderHTML(pages, Latest(Namesakes(p)), cssBlocks, jsBlocks).ret
            /\ Len(pages) > 1 => Cardinality(LinkStarts(sink[p].content)) = PageCount(pages)

\* Generate has succeeded on two pages registered under one output name, the
\* second of them with a section: two writes under that name, the documents
\* differ, and the second page's document is the later one.
C15_Witness ==
  /\ call.op = "Generate" /\ ~call.err
  /\ Len(pages) = 2 /\ pages[1].filename = pages[2].filename
  /\ Len(pages[2].sections) = 1
  /\ sink[1].path = sink[2].path /\ sink[1].content # sink[2].content

\* C16: in every step each registry's block list is a prefix of its block
\* list after the step: no block is removed, moved or rewritten, whatever
\* the operation and whether or not a Generate came before it.
C16_AppendOnly ==
  [][IsPrefix(cssBlocks, cssBlocks') /\ IsPrefix(jsBlocks, jsBlocks')]_vars

\* A component was added after a Generate (s.buff still holds the bundle that
\* Generate wrote last, without the component's text): its CSS block stands
\* behind the navbar's block, which the Generate had registered.
C16_Witness ==
  /\ call.op = "Add"
  /\ buff # <<>>
  /\ cssBlocks = <<[Content |-> NavbarRenderCSS], [Content |-> BlockX]>>
  /\ BlockX \notin Range(buff)

LinkMiddle == "\">"

\* The (output name, title) pair a link shows, decoded.
ShownPage(link) ==
  LET mid == Place(link, LinkMiddle)
  IN << [i \in 1..(mid - 2) |-> UnescapeChar(link[i + 1])],
        [i \in 1..(Len(link) - mid - 1) |-> UnescapeChar(link[mid + i])] >>

\* The pages a navigation block shows, in the order of its links.
ShownPages(nav) ==
  [k \in 1..Cardinality(LinkStarts(nav)) |-> ShownPage(NthLink(nav, k))]

\* The pages registered now.
RegisteredPages == [q \in 1..Len(pages) |-> <<pages[q].filename, pages[q].title>>]

\* C17: the navigation a BuildNav or RenderHTML call returns shows exactly
\* the pages registered at the time of the call, however many were registered
\* when a navigation was built before; RenderHTML shows no link at all while
\* at most one page is registered.
C17_NavOfPagesSoFar ==
  /\ call.op = "BuildNav" => ShownPages(call.ret) = RegisteredPages
  /\ call.op = "RenderHTML" =>
       IF Len(pages) > 1
       THEN ShownPages(Between(call.ret, Place(call.ret, HeadEnd), Place(call.ret, MainOpen)))
              = RegisteredPages
       ELSE LinkStarts(call.ret) = {}

\* BuildNav was called while one page was registered: one link, to that page.
C17_Witness ==
  /\ call.op = "BuildNav" /\ Len(pages) = 1
  /\ Cardinality(LinkStarts(call.ret)) = 1

\* The operations invoked on a Page or on one of its Sections.
PageOps == {"NewSection", "AddHead", "RenderHTML", "Add", "Render"}

\* C18: a NewSection, AddHead, RenderHTML, Section.Add or Section.Render call
\* on a page leaves the page list as long as it was, every other page as it
\* was, and the page's own title and output name as they were.
C18_SiblingsUntouched ==
  [][ call'.op \in PageOps =>
        /\ Len(pages') = Len(pages)
        /\ \A q \in 1..Len(pages) :
             /\ q # call'.page => pages'[q] = pages[q]
             /\ pages'[q].title = pages[q].title
             /\ pages'[q].filename = pages[q].filename ]_vars

\* A head fragment was added to the second page while the first page holds a
\* section of its own.
C18_Witness ==
  /\ call.op = "AddHead" /\ call.page = 2
  /\ Len(pages[1].sections) = 1 /\ pages[1].head = <<>>
  /\ Len(pages[2].head) = 1

\* A registry's Render output: the stored blocks in stored order, each
\* followed by one newline.
RegistryRender(blocks) ==
  [i \in 1..(2 * Len(blocks)) |-> IF i % 2 = 1 THEN blocks[(i + 1) \div 2].Content ELSE "\n"]

\* The contents a successful Generate has handed the sink under a name.
ContentsUnder(path) == { sink[i].content : i \in WritesUnder(path) }

\* C19 as stated: the style bundle handed to the sink is exactly the CSS
\* registry's Render output and the behavior bundle exactly the JS registry's.
C19_BundlesAreRegistries ==
  (call.op = "Generate" /\ ~call.err) =>
    /\ ContentsUnder(StylePath) \subseteq {RegistryRender(cssBlocks)}
    /\ ContentsUnder(ScriptPath) \subseteq {RegistryRender(jsBlocks)}

\* C19 (amended): the style bundle handed to the sink is the base CSS followed
\* by the CSS registry's Render output; the behavior bundle is exactly the JS
\* registry's Render output.
C19_StyleHasBase ==
  (call.op = "Generate" /\ ~call.err) =>
    /\ ContentsUnder(StylePath) \subseteq {generateBaseCSS \o RegistryRender(cssBlocks)}
    /\ ContentsUnder(ScriptPath) \subseteq {RegistryRender(jsBlocks)}

\* A successful Generate has written both bundles from registries of two
\* blocks each.
C19_Witness ==
  /\ call.op = "Generate" /\ ~call.err
  /\ Len(cssBlocks) = 2 /\ Len(jsBlocks) = 2
  /\ ContentsUnder(StylePath) # {} /\ ContentsUnder(ScriptPath) # {}

\* C20: after a successful Generate, a bundle that a written page refers to
\* (style.css by its stylesheet link, script.js by its script include) has
\* itself been handed to the sink under that name.
C20_ReferencedBundlesWritten ==
  (call.op = "Generate" /\ ~call.err) =>
    \A i \in 1..Len(pages) :
      /\ StyleLink \in Range(sink[i].content) => WritesUnder(StylePath) # {}
      /\ ScriptInclude \in Range(sink[i].content) => WritesUnder(ScriptPath) # {}

\* C21: an operation other than Generate makes no WriteFile call, whatever
\* came before it; a Generate makes at most one call per page and one per
\* bundle.
C21_OnlyGenerateWrites ==
  /\ call.op # "Generate" => sink = <<>>
  /\ call.op = "Generate" => Len(sink) <= Len(pages) + 2

\* A page of a two-page site with a stored component block was rendered after
\* a successful Generate: the registries are filled and nothing was written.
C21_Witness ==
  /\ call.op = "RenderHTML" /\ Len(pages) = 2 /\ sink = <<>>
  /\ lastGen.ok /\ Len(lastGen.sink) = 4
  /\ BlockX \in Contents(cssBlocks)

\* A component that contributes the card styles.
IsCard(c) == c.hasCSS /\ c.css = BlockX

\* C22: a successful Generate on a site of two or more pages holding a card
\* component, entered while the navbar's CSS is not registered (nothing was
\* rendered before), writes one document per page under the page's output
\* name, each with the navigation, and then one style bundle that begins with
\* the colour variables and holds the card's block and the navbar's block,
\* which that same call registered.
C22_OneCallCompleteStyle ==
  [][ ( /\ call'.op = "Generate" /\ ~call'.err
        /\ Len(pages) >= 2
        /\ \E c \in AllComponents : IsCard(c)
        /\ NavbarRenderCSS \notin Contents(cssBlocks) )
      => /\ \A i \in 1..Len(pages) :
              /\ sink'[i].path = PathJoin(OutputDir, pages[i].filename)
              /\ HasNav(sink'[i].content)
         /\ Len(sink') > Len(pages)
         /\ LET style == sink'[Len(pages) + 1]
            IN /\ style.path = StylePath
               /\ SubSeq(style.content, 1, Len(generateBaseCSS)) = generateBaseCSS
               /\ BlockX \in Range(style.content)
               /\ NavbarRenderCSS \in Range(style.content)
         /\ NavbarRenderCSS \in Contents(cssBlocks') ]_vars

\* Generate has succeeded on a two-page site with one card: the navbar's block
\* stands behind the card's in the registry and both are in the style bundle.
C22_Witness ==
  /\ call.op = "Generate" /\ ~call.err /\ Len(pages) = 2
  /\ \E c \in AllComponents : IsCard(c)
  /\ cssBlocks = <<[Content |-> BlockX], [Content |-> NavbarRenderCSS]>>
  /\ Len(sink) >= 3 /\ sink[3].path = StylePath
  /\ NavbarRenderCSS \in Range(sink[3].content)

\* C23: Section.Add of a component without the styling capability leaves the
\* CSS registry as it was, and of one without the behavior capability the JS
\* registry; either way the call returns its section, the component is the
\* section's new last item and the items before it stay.
C23_MissingCapabilityNoOffer ==
  [][ call'.op = "Add" =>
        LET before == pages[call'.page].sections[call'.section].content
            after  == pages'[call'.page].sections[call'.section].content
        IN /\ ~Added'.hasCSS => cssBlocks' = cssBlocks
           /\ ~Added'.hasJS => jsBlocks' = jsBlocks
           /\ (~Added'.hasCSS \/ ~Added'.hasJS) =>
                /\ call'.ret = <<call'.page, call'.section>>
                /\ Len(after) = Len(before) + 1
                /\ SubSeq(after, 1, Len(before)) = before ]_vars

\* A component with neither capability, holding texts of its own, was added
\* behind another component: both registries hold what they held.
C23_Witness ==
  /\ call.op = "Add" /\ ~Added.hasCSS /\ ~Added.hasJS
  /\ Added.css = BlockX /\ Added.js = Blank
  /\ Len(pages[call.page].sections[call.section].content) = 2
  /\ BlockX \notin Contents(cssBlocks) /\ Blank \in Contents(cssBlocks)
  /\ Blank \notin Contents(jsBlocks)

\* The (title, output name) pairs of a page list, in list order.
Identities(pgs) == [q \in 1..Len(pgs) |-> <<pgs[q].title, pgs[q].filename>>]

\* C24: a new Site has no page; each NewPage call raises PageCount by one and
\* puts its page, empty, behind the pages registered before, which keep their
\* places; every other operation leaves PageCount and the pages' identities
\* and order as they were.  So PageCount is the number of NewPage calls made
\* and never decreases.
C24_PageCountCountsNewPage ==
  /\ PageCount(pages) = 0
  /\ [][ IF call'.op = "NewPage"
         THEN /\ PageCount(pages') = PageCount(pages) + 1
              /\ SubSeq(pages', 1, Len(pages)) = pages
              /\ pages'[Len(pages')].sections = <<>> /\ pages'[Len(pages')].head = <<>>
         ELSE Identities(pages') = Identities(pages) ]_vars

\* The second page was registered behind a first page that already holds a
\* section, after a Generate had run.
C24_Witness ==
  /\ call.op = "NewPage" /\ PageCount(pages) = 2
  /\ Len(pages[1].sections) = 1 /\ pages[2].sections = <<>>
  /\ pages[1].filename # pages[2].filename
  /\ NavbarRenderCSS \notin Contents(cssBlocks) /\ buff # <<>>

\* C25: the WriteFile calls of a Generate, failed or not, are in a fixed
\* order: the i-th call, up to the number of pages, carries the i-th page's
\* output name and document; every later call carries a bundle, each bundle at
\* most once, and the behavior bundle only behind the style bundle when both
\* are written.
C25_FixedWriteOrder ==
  call.op = "Generate" =>
    /\ \A i \in 1..Len(sink) :
         IF i <= Len(pages)
         THEN /\ sink[i].path = PathJoin(OutputDir, pages[i].filename)
              /\ sink[i].content = RenderHTML(pages, i, cssBlocks, jsBlocks).ret
         ELSE sink[i].path \in {StylePath, ScriptPath}
    /\ Cardinality(WritesUnder(StylePath)) <= 1
    /\ Cardinality(WritesUnder(ScriptPath)) <= 1
    /\ \A i \in WritesUnder(StylePath) : \A j \in WritesUnder(ScriptPath) : i < j

\* A successful Generate on two pages with different output names wrote four
\* artifacts: the pages, the style bundle, the behavior bundle.
C25_Witness ==
  /\ call.op = "Generate" /\ ~call.err
  /\ Len(pages) = 2 /\ pages[1].filename # pages[2].filename
  /\ Len(sink) = 4 /\ sink[3].path = StylePath /\ sink[4].path = ScriptPath

\* The calls that render: Generate, RenderHTML and BuildNav.
PassOps == {"Generate", "RenderHTML", "BuildNav"}

\* Both registries hold the navbar's block.
NavAssetsStored ==
  NavbarRenderCSS \in Contents(cssBlocks) /\ NavbarRenderJS \in Contents(jsBlocks)

\* C26 as stated: once a Generate has completed and no build operation
\* followed it, a further Generate, RenderHTML or BuildNav call leaves both
\* registries as they were.
C26_FixpointAfterOnePass ==
  [][ (lastGen.ok /\ call'.op \in PassOps)
        => (cssBlocks' = cssBlocks /\ jsBlocks' = jsBlocks) ]_vars

\* C26 (amended): one BuildNav call, or one Generate or RenderHTML call on a
\* site of more than one page, leaves the navbar's block in both registries;
\* from then on every Generate, RenderHTML and BuildNav call leaves both
\* registries as they were.  On a site of at most one page Generate and
\* RenderHTML register nothing, so that a BuildNav call made after them still
\* changes the registries when it is the first one.
C26_FixpointAfterNavPass ==
  [][ call'.op \in PassOps =>
        /\ (call'.op = "BuildNav" \/ Len(pages) > 1) => NavAssetsStored'
        /\ (NavAssetsStored \/ (call'.op # "BuildNav" /\ Len(pages) <= 1))
             => (cssBlocks' = cssBlocks /\ jsBlocks' = jsBlocks)
        /\ (call'.op = "BuildNav" /\ ~NavAssetsStored)
             => (cssBlocks' # cssBlocks \/ jsBlocks' # jsBlocks) ]_vars

\* BuildNav was called after a successful Generate on a two-page site with a
\* component: the registries are those the Generate left.
C26_Witness ==
  /\ call.op = "BuildNav" /\ lastGen.ok /\ lastGen.nav /\ Len(pages) = 2
  /\ cssBlocks = <<[Content |-> BlockX], [Content |-> NavbarRenderCSS]>>
  /\ lastGen.sink[3].content = generateBaseCSS \o RegistryRender(cssBlocks)

\* How often a text is stored in a registry.
TimesStored(blocks, text) == Cardinality({ i \in 1..Len(blocks) : blocks[i].Content = text })

\* C27: a direct AddCSS call leaves the JS registry as it was and a direct
\* AddJS call the CSS registry; a non-empty text new to the registry it is
\* offered to is appended there whether or not the other registry holds it;
\* and a text offered to both registries is stored once in each.
C27_RegistriesIndependent ==
  [][ /\ call'.op = "AddCSS" =>
           /\ jsBlocks' = jsBlocks
           /\ (call'.text # "" /\ TimesStored(cssBlocks, call'.text) = 0)
                => cssBlocks' = Append(cssBlocks, [Content |-> call'.text])
      /\ call'.op = "AddJS" =>
           /\ cssBlocks' = cssBlocks
           /\ (call'.text # "" /\ TimesStored(jsBlocks, call'.text) = 0)
                => jsBlocks' = Append(jsBlocks, [Content |-> call'.text])
      /\ \A x \in cssOffered' \cap jsOffered' :
           TimesStored(cssBlocks', x) = 1 /\ TimesStored(jsBlocks', x) = 1 ]_vars

\* The text the CSS registry holds already was offered to AddJS directly, for
\* the first time: each registry holds it once.
C27_Witness ==
  /\ call.op = "AddJS" /\ call.text = BlockX
  /\ cssBlocks = <<[Content |-> BlockX]>> /\ jsBlocks = <<[Content |-> BlockX]>>
  /\ AllComponents = {}

\* The navigation block of a document: what stands between the end of the
\* head and the main-content wrapper.
NavBlock(doc) == Between(doc, Place(doc, HeadEnd), Place(doc, MainOpen))

\* The page documents a Generate has handed the sink, in call order.
PageArtifacts ==
  [i \in 1..(IF Len(sink) < Len(pages) THEN Len(sink) ELSE Len(pages)) |-> sink[i].content]

\* C28: the page documents written by one Generate on a site of two or more
\* pages all hold the same navigation block; it shows every registered page
\* in registration order, and its first link, the first-registered page's, is
\* the only one marked as the home link.
C28_SameNavOnEveryPage ==
  (call.op = "Generate" /\ Len(pages) >= 2) =>
    \A i \in 1..Len(PageArtifacts) :
      LET nav == NavBlock(PageArtifacts[i])
      IN /\ nav = NavBlock(PageArtifacts[1])
         /\ ShownPages(nav) = RegisteredPages
         /\ Cardinality(LinkStarts(nav)) = Len(pages)
         /\ NthLink(nav, 1)[1] = HomeLinkOpen
         /\ \A k \in 2..Len(pages) : NthLink(nav, k)[1] = LinkOpen
         /\ Cardinality(Places(nav, HomeLinkOpen)) = 1

\* Generate has written the documents of two pages that differ in title,
\* output name and sections.
C28_Witness ==
  /\ call.op = "Generate" /\ ~call.err /\ Len(pages) = 2
  /\ pages[1].title # pages[2].title /\ pages[1].filename # pages[2].filename
  /\ pages[1].sections = <<>> /\ Len(pages[2].sections) = 1
  /\ Len(PageArtifacts) = 2 /\ PageArtifacts[1] # PageArtifacts[2]

\* A step puts a text into a registry that did not hold it.
Enters(text, blocks, blocksAfter) ==
  text \notin Contents(blocks) /\ text \in Contents(blocksAfter)

\* The step is a BuildNav call, made directly or by the rendering of a page
\* while more than one page is registered.
NavBuilt ==
  \/ call'.op = "BuildNav"
  \/ call'.op = "RenderHTML" /\ PageCount(pages) > 1
  \/ call'.op = "Generate" /\ PageCount(pages) > 1

\* C29: the navbar's CSS and JS enter the registries only in a step that
\* calls BuildNav, directly or by rendering a page while more than one page
\* is registered, and the first such step does store them; a step on a site
\* of at most one page that is not a direct BuildNav call never does.
C29_NavAssetsOnlyByBuildNav ==
  [][ /\ Enters(NavbarRenderCSS, cssBlocks, cssBlocks') => NavBuilt
      /\ Enters(NavbarRenderJS, jsBlocks, jsBlocks') => NavBuilt
      /\ NavBuilt => NavAssetsStored'
      /\ (PageCount(pages') <= 1 /\ call'.op # "BuildNav") =>
           /\ ~Enters(NavbarRenderCSS, cssBlocks, cssBlocks')
           /\ ~Enters(NavbarRenderJS, jsBlocks, jsBlocks') ]_vars

\* The only page of a site, holding a component, was generated twice and the
\* registries hold the component's blocks alone.
C29_Witness ==
  /\ call.op = "Generate" /\ ~call.err /\ repeat.cmp = "same"
  /\ PageCount(pages) = 1 /\ AllComponents # {}
  /\ cssBlocks = <<[Content |-> BlockX]>> /\ jsBlocks = <<[Content |-> BlockX]>>

\* The place of a stored text in a registry.
IndexOf(blocks, text) == CHOOSE i \in 1..Len(blocks) : blocks[i].Content = text

\* What Generate does to the CSS registry and the style bundle when it is
\* entered on a site of more than one page while the navbar's CSS is not
\* stored: the navbar's block goes behind every stored block, and the bundle
\* lists the blocks in that order.
NavLastInBundle ==
  (call'.op = "Generate" /\ PageCount(pages) > 1 /\ NavbarRenderCSS \notin Contents(cssBlocks))
    => /\ cssBlocks' = Append(cssBlocks, [Content |-> NavbarRenderCSS])
       /\ ~call'.err =>
            sink'[Len(pages) + 1].content = generateBaseCSS \o RegistryRender(cssBlocks')

\* C30 as stated: when Generate is the first to render, the navbar's block
\* comes behind every block stored in the build phase; and when a component
\* with a CSS text is added right after a page of a site of several pages was
\* rendered, that component's block stands behind the navbar's block.
C30_NavBeforeLaterComponents ==
  [][ /\ NavLastInBundle
      /\ ( /\ call.op = "RenderHTML" /\ PageCount(pages) > 1
           /\ call'.op = "Add" /\ Added'.hasCSS /\ Added'.css # "" )
         => IndexOf(cssBlocks', NavbarRenderCSS) < IndexOf(cssBlocks', Added'.css) ]_vars

\* C30 (amended): when Generate is the first to render, the navbar's block
\* comes behind every block stored in the build phase; once the navbar's block
\* is stored, an Add or AddCSS call leaves every stored block at its place,
\* so that a text stored before keeps its place in front of the navbar's
\* block, and a text it newly stores goes behind the navbar's block.
C30_NavBeforeNewBlocks ==
  [][ /\ NavLastInBundle
      /\ (call'.op \in {"Add", "AddCSS"} /\ NavbarRenderCSS \in Contents(cssBlocks))
         => /\ IsPrefix(cssBlocks, cssBlocks')
            /\ \A i \in (Len(cssBlocks) + 1)..Len(cssBlocks') :
                 IndexOf(cssBlocks', NavbarRenderCSS) < i ]_vars

\* A page of a two-page site was rendered, then a component was added, then
\* Generate ran: the style bundle lists the navbar's block before the
\* component's.
C30_Witness ==
  /\ call.op = "Generate" /\ ~call.err /\ Len(pages) = 2
  /\ \E c \in AllComponents : IsCard(c)
  /\ sink[3].content
       = generateBaseCSS \o <<NavbarRenderCSS, "\n", BlockX, "\n">>
====
